---------------------------- MODULE Spec2Model ----------------------------
(***************************************************************************)
(* A model of src/lang.cpp: the Kaleidoscope lexer (gettok), the           *)
(* recursive-descent / operator-precedence expression parser and the       *)
(* precedence table.                                                       *)
(*                                                                         *)
(* Characters and tokens are C ints: a character is its ASCII code, EOF is *)
(* -1 and the tok_* enumerators are the negative numbers of the enum.      *)
(* std::string values are sequences of character codes.  The lexer is a    *)
(* function of its static state and the bytes left on stdin; the parser is *)
(* a machine with an explicit call stack, one action per stretch of code   *)
(* between two calls of a parse function.                                  *)
(***************************************************************************)
EXTENDS Integers, Sequences, FiniteSets

VARIABLES
    input,            \* the bytes supplied on stdin
    pos,              \* number of getchar() calls made so far on this stdin
    LastChar,         \* static int LastChar of gettok
    IdentifierStr,    \* static std::string IdentifierStr
    NumVal,           \* static double NumVal
    CurTok,           \* static int CurTok
    BinopPrecedence,  \* static std::map<char, int> BinopPrecedence
    stack,            \* call stack of the parse functions, innermost last
    ret,              \* value returned by the parse function that returned last
    errs,             \* lines written to stderr by LogError in this parse attempt
    pc,               \* position of the calling driver
    toks,             \* history: every token gettok returned in this run
    first             \* history: which run of the lexer this is and, in a
                      \* second run, the input and the tokens of the first

vars == <<input, pos, LastChar, IdentifierStr, NumVal, CurTok, BinopPrecedence,
          stack, ret, errs, pc, toks, first>>

----------------------------------------------------------------------------
\* F(v), with v evaluated once: a local variable that holds a value.
Let(v, F(_)) == CHOOSE r \in {F(x) : x \in {v}} : TRUE

----------------------------------------------------------------------------
(* Characters *)

Letters == <<"a","b","c","d","e","f","g","h","i","j","k","l","m",
             "n","o","p","q","r","s","t","u","v","w","x","y","z">>

Digits == <<"0","1","2","3","4","5","6","7","8","9">>

\* The ASCII code of a one-character string.
Ord(c) ==
    IF \E i \in 1..26 : Letters[i] = c
    THEN 96 + (CHOOSE i \in 1..26 : Letters[i] = c)
    ELSE IF \E i \in 1..10 : Digits[i] = c
    THEN 47 + (CHOOSE i \in 1..10 : Digits[i] = c)
    ELSE CASE c = " "  -> 32
           [] c = "\t" -> 9
           [] c = "\n" -> 10
           [] c = "\r" -> 13
           [] c = "#"  -> 35
           [] c = "("  -> 40
           [] c = ")"  -> 41
           [] c = "*"  -> 42
           [] c = "+"  -> 43
           [] c = ","  -> 44
           [] c = "-"  -> 45
           [] c = "."  -> 46
           [] c = "<"  -> 60

\* A std::string literal, written as a sequence of one-character strings.
Str(s) == [i \in 1..Len(s) |-> Ord(s[i])]

EOF == -1

isspace(c) == c \in {9, 10, 11, 12, 13, 32}
isalpha(c) == c \in (65..90) \cup (97..122)
isdigit(c) == c \in 48..57
isalnum(c) == isalpha(c) \/ isdigit(c)
isascii(c) == c \in 0..127

----------------------------------------------------------------------------
(* Tokens: enum Token *)

tok_eof == -1
tok_def == -2
tok_extern == -3
tok_identifier == -4
tok_number == -5

----------------------------------------------------------------------------
(* The lexer.  Its state is the record lx = [LastChar, IdentifierStr,      *)
(* NumVal, pos]; in is the content of stdin.                               *)

\* getchar(): the next byte of stdin, EOF once stdin is exhausted.
getchar(in, p) == IF p < Len(in) THEN in[p + 1] ELSE EOF

\* LastChar = getchar();
ReadChar(in, lx) ==
    [lx EXCEPT !.LastChar = getchar(in, lx.pos), !.pos = lx.pos + 1]

\* while (isspace(LastChar)) LastChar = getchar();
RECURSIVE SkipWhitespace(_, _)
SkipWhitespace(in, lx) ==
    IF isspace(lx.LastChar)
    THEN Let(ReadChar(in, lx), LAMBDA lx1 : SkipWhitespace(in, lx1))
    ELSE lx

\* while (isalnum(LastChar = getchar())) IdentifierStr += LastChar;
RECURSIVE ScanIdentifier(_, _)
ScanIdentifier(in, lx) ==
    Let(ReadChar(in, lx), LAMBDA lx1 :
        IF isalnum(lx1.LastChar)
        THEN ScanIdentifier(in,
                 [lx1 EXCEPT !.IdentifierStr = Append(lx1.IdentifierStr, lx1.LastChar)])
        ELSE lx1)

\* The keyword test that follows the identifier scan.
KeywordOrIdentifier(str) ==
    IF str = Str(<<"d","e","f">>) THEN tok_def
    ELSE IF str = Str(<<"e","x","t","e","r","n">>) THEN tok_extern
    ELSE tok_identifier

\* do { NumStr += LastChar; LastChar = getchar(); }
\* while (isdigit(LastChar) || LastChar == '.');
RECURSIVE ScanNumber(_, _, _)
ScanNumber(in, lx, NumStr) ==
    Let(Append(NumStr, lx.LastChar), LAMBDA str :
    Let(ReadChar(in, lx), LAMBDA lx1 :
        IF isdigit(lx1.LastChar) \/ lx1.LastChar = Ord(".")
        THEN ScanNumber(in, lx1, str)
        ELSE [lx |-> lx1, NumStr |-> str]))

\* The length of the run of decimal digits of s that starts at index i.
RECURSIVE DigitRun(_, _)
DigitRun(s, i) ==
    IF i <= Len(s) /\ isdigit(s[i]) THEN 1 + DigitRun(s, i + 1) ELSE 0

\* The number written by the digits s[i .. i+n-1].
RECURSIVE DigitsValue(_, _, _)
DigitsValue(s, i, n) ==
    IF n = 0 THEN 0 ELSE 10 * DigitsValue(s, i, n - 1) + (s[i + n - 1] - 48)

RECURSIVE Pow10(_)
Pow10(k) == IF k = 0 THEN 1 ELSE 10 * Pow10(k - 1)

\* A decimal fraction num / 10^exp in lowest terms of 10.
RECURSIVE Normalize(_, _)
Normalize(num, exp) ==
    IF exp > 0 /\ num % 10 = 0 THEN Normalize(num \div 10, exp - 1)
    ELSE [num |-> num, exp |-> exp]

\* strtod(NumStr.c_str(), 0) on a string of digits and '.': the value of the
\* longest prefix of the form digits [ '.' digits ] that holds a digit, and 0
\* when there is none.  A double is modelled by the decimal fraction it was
\* converted from.
strtod(s) ==
    LET ni == DigitRun(s, 1)
        dot == ni + 1 <= Len(s) /\ s[ni + 1] = Ord(".")
        nf == IF dot THEN DigitRun(s, ni + 2) ELSE 0
    IN  IF ni + nf = 0 THEN Normalize(0, 0)
        ELSE Normalize(DigitsValue(s, 1, ni) * Pow10(nf) + DigitsValue(s, ni + 2, nf), nf)

\* Mutant of SkipComment: the test for '\n' is forgotten.
RECURSIVE SkipComment_missesNewline(_, _)
SkipComment_missesNewline(in, lx) ==
    Let(ReadChar(in, lx), LAMBDA lx1 :
        IF lx1.LastChar # EOF /\ lx1.LastChar # 13
        THEN SkipComment_missesNewline(in, lx1)
        ELSE lx1)

\* do LastChar = getchar();
\* while (LastChar != EOF && LastChar != '\n' && LastChar != '\r');
RECURSIVE SkipComment(_, _)
SkipComment(in, lx) ==
    Let(ReadChar(in, lx), LAMBDA lx1 :
        IF lx1.LastChar # EOF /\ lx1.LastChar # 10 /\ lx1.LastChar # 13
        THEN SkipComment(in, lx1)
        ELSE lx1)

\* Mutant of CharToken: the test for EOF is forgotten, and EOF is returned as
\* any other character is.
CharToken_noEofTest(in, lx) ==
    [lx |-> ReadChar(in, lx), tok |-> lx.LastChar, start |-> lx.pos]

\* The end of gettok: end of input, or any other character as its own token.
CharToken(in, lx) ==
    IF lx.LastChar = EOF
    THEN [lx |-> lx, tok |-> tok_eof, start |-> lx.pos]
    ELSE [lx |-> ReadChar(in, lx), tok |-> lx.LastChar, start |-> lx.pos]

\* static int gettok().  The result holds the lexer state after the call, the
\* token returned and, as history, the index in stdin of the character the
\* token was classified by.
RECURSIVE gettok(_, _)
gettok(in, lx0) ==
    Let(SkipWhitespace(in, lx0), LAMBDA lx :
        IF isalpha(lx.LastChar)
        THEN Let(ScanIdentifier(in, lx), LAMBDA lx1 :
                 [lx |-> lx1, tok |-> KeywordOrIdentifier(lx1.IdentifierStr),
                  start |-> lx.pos])
        ELSE IF isdigit(lx.LastChar) \/ lx.LastChar = Ord(".")
        THEN Let(ScanNumber(in, lx, <<>>), LAMBDA n :
                 [lx |-> [n.lx EXCEPT !.NumVal = strtod(n.NumStr)],
                  tok |-> tok_number, start |-> lx.pos])
        ELSE IF lx.LastChar = Ord("#")
        THEN Let(SkipComment(in, lx), LAMBDA lx1 :
                 IF lx1.LastChar # EOF THEN gettok(in, lx1) ELSE CharToken(in, lx1))
        ELSE CharToken(in, lx))

----------------------------------------------------------------------------
(* The AST node classes.  A std::unique_ptr is the node it owns, or nullptr. *)

nullptr == [kind |-> "nullptr"]

NumberExprAST(Val) == [kind |-> "Number", Val |-> Val]

VariableExprAST(Name) == [kind |-> "Variable", Name |-> Name]

BinaryExprAST(Op, LHS, RHS) == [kind |-> "Binary", Op |-> Op, LHS |-> LHS, RHS |-> RHS]

CallExprAST(Callee, Args) == [kind |-> "Call", Callee |-> Callee, Args |-> Args]

PrototypeAST(Name, Args) == [kind |-> "Prototype", Name |-> Name, Args |-> Args]

FunctionAST(Proto, Body) == [kind |-> "Function", Proto |-> Proto, Body |-> Body]

----------------------------------------------------------------------------
(* CurTok / getNextToken.  m is the lexer state together with CurTok and   *)
(* the token history.                                                      *)

M == [LastChar |-> LastChar, IdentifierStr |-> IdentifierStr, NumVal |-> NumVal,
      pos |-> pos, CurTok |-> CurTok, toks |-> toks]

SetM(m) ==
    /\ LastChar' = m.LastChar
    /\ IdentifierStr' = m.IdentifierStr
    /\ NumVal' = m.NumVal
    /\ pos' = m.pos
    /\ CurTok' = m.CurTok
    /\ toks' = m.toks

\* History: what gettok returned (the token, and the value of the static it
\* carries) and the characters of stdin the token was made of.
TokenRecord(in, r) ==
    [tok  |-> r.tok,
     start |-> r.start,
     str  |-> IF r.tok \in {tok_identifier, tok_def, tok_extern}
              THEN r.lx.IdentifierStr ELSE <<>>,
     num  |-> IF r.tok = tok_number THEN r.lx.NumVal ELSE Normalize(0, 0),
     text |-> IF r.tok = tok_eof THEN <<>>
              ELSE IF r.tok \in {tok_identifier, tok_def, tok_extern, tok_number}
              THEN SubSeq(in, r.start, r.lx.pos - 1)
              ELSE <<r.tok>>]

\* static int getNextToken() { return CurTok = gettok(); }
getNextToken(m) ==
    Let(gettok(input, [LastChar |-> m.LastChar, IdentifierStr |-> m.IdentifierStr,
                       NumVal |-> m.NumVal, pos |-> m.pos]),
        LAMBDA r :
        [LastChar |-> r.lx.LastChar, IdentifierStr |-> r.lx.IdentifierStr,
         NumVal |-> r.lx.NumVal, pos |-> r.lx.pos, CurTok |-> r.tok,
         toks |-> Append(m.toks, TokenRecord(input, r))])

----------------------------------------------------------------------------
(* The precedence table *)

\* The table as main() leaves it.
MainTable ==
    [c \in {Ord("<"), Ord("+"), Ord("-"), Ord("*")} |->
        CASE c = Ord("<") -> 10
          [] c = Ord("+") -> 20
          [] c = Ord("-") -> 30
          [] c = Ord("*") -> 40]

\* BinopPrecedence[c] of std::map: a key that is absent is inserted with the
\* value 0 before it is read.
MapIndex(tbl, c) ==
    IF c \in DOMAIN tbl THEN tbl
    ELSE [k \in DOMAIN tbl \cup {c} |-> IF k = c THEN 0 ELSE tbl[k]]

\* static int GetTokPrecedence(): the precedence found and the table after
\* the lookup.
GetTokPrecedence(tbl, tok) ==
    IF ~isascii(tok) THEN [prec |-> -1, tbl |-> tbl]
    ELSE Let(MapIndex(tbl, tok), LAMBDA tbl1 :
         Let(tbl1[tok], LAMBDA TokPrec :
             [prec |-> IF TokPrec <= 0 THEN -1 ELSE TokPrec, tbl |-> tbl1]))

----------------------------------------------------------------------------
(* The parser: a stack of frames [fn, at, locals].  A frame is on top of   *)
(* the stack at "entry" when its function has just been called, and at a   *)
(* later label when the call it made there has returned (ret is the value  *)
(* returned).                                                              *)

Top == stack[Len(stack)]

Rest == SubSeq(stack, 1, Len(stack) - 1)

Running(fn, at) ==
    /\ pc = "parsing"
    /\ stack # <<>>
    /\ Top.fn = fn
    /\ Top.at = at

Frame(fn) == [fn |-> fn, at |-> "entry"]

\* One stretch of parser code: the statics, the table, the stack, the value
\* returned and stderr after it.  The driver resumes when the stack is empty.
Step(m, tbl, stk, r, e) ==
    /\ SetM(m)
    /\ BinopPrecedence' = tbl
    /\ stack' = stk
    /\ ret' = r
    /\ errs' = e
    /\ pc' = IF stk = <<>> THEN "done" ELSE "parsing"
    /\ UNCHANGED <<input, first>>

\* LogError(Str): one line on stderr.
LogError(e, msg) == Append(e, msg)

\* ParsePrimary: switch (CurTok); each case returns what the function it
\* calls returns.
ParsePrimary ==
    /\ Running("ParsePrimary", "entry")
    /\ IF CurTok = tok_identifier
       THEN Step(M, BinopPrecedence, Append(Rest, Frame("ParseIdentifierExpr")), ret, errs)
       ELSE IF CurTok = tok_number
       THEN Step(M, BinopPrecedence, Append(Rest, Frame("ParseNumberExpr")), ret, errs)
       ELSE IF CurTok = Ord("(")
       THEN Step(M, BinopPrecedence, Append(Rest, Frame("ParseParenExpr")), ret, errs)
       ELSE Step(M, BinopPrecedence, Rest, nullptr,
                 LogError(errs, "Unknown Token! Expected an expression"))

\* ParseNumberExpr
ParseNumberExpr ==
    /\ Running("ParseNumberExpr", "entry")
    /\ \E Result \in {NumberExprAST(NumVal)}, m1 \in {getNextToken(M)} :
           Step(m1, BinopPrecedence, Rest, Result, errs)

\* ParseParenExpr up to its call of ParseExpression.
ParseParenExpr ==
    /\ Running("ParseParenExpr", "entry")
    /\ \E m1 \in {getNextToken(M)} :
           Step(m1, BinopPrecedence,
                Rest \o <<[fn |-> "ParseParenExpr", at |-> "V"], Frame("ParseExpression")>>,
                ret, errs)

\* Mutant of ParenResult: a null V is reported once more.
ParenResult_logsOnNull(V, tok) ==
    IF V = nullptr \/ tok # Ord(")") THEN [val |-> nullptr, log |-> TRUE, eat |-> FALSE]
    ELSE [val |-> V, log |-> FALSE, eat |-> TRUE]

\* What ParseParenExpr does with V: the value it returns, whether it logs,
\* whether it eats the ')'.
ParenResult(V, tok) ==
    IF V = nullptr THEN [val |-> nullptr, log |-> FALSE, eat |-> FALSE]
    ELSE IF tok # Ord(")") THEN [val |-> nullptr, log |-> TRUE, eat |-> FALSE]
    ELSE [val |-> V, log |-> FALSE, eat |-> TRUE]

\* ParseParenExpr after ParseExpression has returned V.
ParseParenExpr_V ==
    /\ Running("ParseParenExpr", "V")
    /\ \E r \in {ParenResult(ret, CurTok)} :
       \E m1 \in {IF r.eat THEN getNextToken(M) ELSE M} :
           Step(m1, BinopPrecedence, Rest, r.val,
                IF r.log THEN LogError(errs, "Expected ')'") ELSE errs)

\* ParseIdentifierExpr up to its first call of ParseExpression, or to its
\* return when there is no argument to parse.  idText is history: the
\* characters of the identifier the function was started on.
ParseIdentifierExpr ==
    /\ Running("ParseIdentifierExpr", "entry")
    /\ \E IdName \in {IdentifierStr}, m1 \in {getNextToken(M)} :
           IF m1.CurTok # Ord("(")
           THEN Step(m1, BinopPrecedence, Rest, VariableExprAST(IdName), errs)
           ELSE \E m2 \in {getNextToken(m1)} :
                IF m2.CurTok # Ord(")")
                THEN Step(m2, BinopPrecedence,
                          Rest \o <<[fn |-> "ParseIdentifierExpr", at |-> "Arg",
                                     IdName |-> IdName, Args |-> <<>>,
                                     idText |-> toks[Len(toks)].text,
                                     mark |-> Len(m2.toks)],
                                    Frame("ParseExpression")>>,
                          ret, errs)
                ELSE \E m3 \in {getNextToken(m2)} :
                     Step(m3, BinopPrecedence, Rest, CallExprAST(IdName, <<>>), errs)

\* Args.push_back(std::move(Arg))
PushBack(Args, Arg) == Append(Args, Arg)

\* ParseIdentifierExpr after ParseExpression has returned an argument: the
\* rest of the loop body, then either the next call or the return.
ParseIdentifierExpr_Arg ==
    /\ Running("ParseIdentifierExpr", "Arg")
    /\ IF ret = nullptr
       THEN Step(M, BinopPrecedence, Rest, nullptr, errs)
       ELSE \E Args \in {PushBack(Top.Args, ret)} :
            IF CurTok = Ord(")")
            THEN \E m1 \in {getNextToken(M)} :
                 Step(m1, BinopPrecedence, Rest, CallExprAST(Top.IdName, Args), errs)
            ELSE IF CurTok # Ord(",")
            THEN Step(M, BinopPrecedence, Rest, nullptr,
                      LogError(errs, "Expected ')' or ',' in argument list"))
            ELSE \E m1 \in {getNextToken(M)} :
                 Step(m1, BinopPrecedence,
                      Rest \o <<[Top EXCEPT !.Args = Args, !.mark = Len(m1.toks)],
                                Frame("ParseExpression")>>,
                      ret, errs)

\* ParseExpression up to its call of ParsePrimary.
ParseExpression ==
    /\ Running("ParseExpression", "entry")
    /\ Step(M, BinopPrecedence,
            Rest \o <<[fn |-> "ParseExpression", at |-> "LHS"], Frame("ParsePrimary")>>,
            ret, errs)

\* ParseExpression after ParsePrimary has returned LHS: it returns what
\* ParseBinOpRHS(0, LHS) returns.
ParseExpression_LHS ==
    /\ Running("ParseExpression", "LHS")
    /\ IF ret = nullptr
       THEN Step(M, BinopPrecedence, Rest, nullptr, errs)
       ELSE Step(M, BinopPrecedence,
                 Append(Rest, [fn |-> "ParseBinOpRHS", at |-> "loop",
                               ExprPrec |-> 0, LHS |-> ret]),
                 ret, errs)

\* getNextToken() of ParseBinOpRHS: the operator is eaten.
EatBinOp(m) == getNextToken(m)

\* ParseBinOpRHS from the head of its loop to its call of ParsePrimary, or
\* to its return.  mark is history: the number of tokens read when the
\* iteration began.
ParseBinOpRHS ==
    /\ Running("ParseBinOpRHS", "loop")
    /\ \E g \in {GetTokPrecedence(BinopPrecedence, CurTok)} :
       \E TokPrec \in {g.prec} :
           IF TokPrec < Top.ExprPrec
           THEN Step(M, g.tbl, Rest, Top.LHS, errs)
           ELSE \E m1 \in {EatBinOp(M)} :
                Step(m1, g.tbl,
                     Rest \o <<[fn |-> "ParseBinOpRHS", at |-> "RHS",
                                ExprPrec |-> Top.ExprPrec, LHS |-> Top.LHS,
                                TokPrec |-> TokPrec, BinOp |-> CurTok,
                                mark |-> Len(toks)],
                               Frame("ParsePrimary")>>,
                     ret, errs)

\* Mutant of MergeLHS: the loop goes on with the minimal precedence raised
\* past the operator just merged.
MergeLHS_raisesExprPrec(f, RHS) ==
    [fn |-> "ParseBinOpRHS", at |-> "loop", ExprPrec |-> f.TokPrec + 1,
     LHS |-> BinaryExprAST(f.BinOp, f.LHS, RHS)]

\* The end of the loop body of ParseBinOpRHS: the branch for a tighter
\* binding next operator is empty, LHS and RHS are merged and the loop goes on
\* with the same ExprPrec.
MergeLHS(f, RHS) ==
    [fn |-> "ParseBinOpRHS", at |-> "loop", ExprPrec |-> f.ExprPrec,
     LHS |-> BinaryExprAST(f.BinOp, f.LHS, RHS)]

\* ParseBinOpRHS after ParsePrimary has returned RHS.
ParseBinOpRHS_RHS ==
    /\ Running("ParseBinOpRHS", "RHS")
    /\ IF ret = nullptr
       THEN Step(M, BinopPrecedence, Rest, nullptr, errs)
       ELSE \E g \in {GetTokPrecedence(BinopPrecedence, CurTok)} :
            \E NextPrec \in {g.prec} :
                Step(M, g.tbl, Append(Rest, MergeLHS(Top, ret)), ret, errs)

\* A caller: it reads the first token and calls ParseExpression.
CallParseExpression ==
    /\ pc = "start"
    /\ \E m1 \in {getNextToken(M)} : SetM(m1)
    /\ stack' = <<Frame("ParseExpression")>>
    /\ pc' = "parsing"
    /\ UNCHANGED <<input, BinopPrecedence, ret, errs, first>>

ParserStep ==
    \/ ParsePrimary
    \/ ParseNumberExpr
    \/ ParseParenExpr
    \/ ParseParenExpr_V
    \/ ParseIdentifierExpr
    \/ ParseIdentifierExpr_Arg
    \/ ParseExpression
    \/ ParseExpression_LHS
    \/ ParseBinOpRHS
    \/ ParseBinOpRHS_RHS

----------------------------------------------------------------------------
(* The specification of one call of ParseExpression on every input of at   *)
(* most MaxLen characters of ParseAlphabet.                                *)

MaxLen == 5

ParseAlphabet == {Ord(c) : c \in {"1", "a", "(", ")", ",", "+", "*", " "}}

Inputs(alphabet, n) == UNION {[1..k -> alphabet] : k \in 0..n}

\* The statics as the program starts, and BinopPrecedence as main() sets it.
InitStatics ==
    /\ pos = 0
    /\ LastChar = 32
    /\ IdentifierStr = <<>>
    /\ NumVal = Normalize(0, 0)
    /\ CurTok = 0
    /\ BinopPrecedence = MainTable
    /\ stack = <<>>
    /\ ret = nullptr
    /\ errs = <<>>
    /\ pc = "start"
    /\ toks = <<>>
    /\ first = [run |-> "first"]

Init ==
    /\ input \in Inputs(ParseAlphabet, MaxLen)
    /\ InitStatics

Next ==
    \/ CallParseExpression
    \/ ParserStep

Spec == Init /\ [][Next]_vars


----------------------------------------------------------------------------
(* Lexer runs: a caller that calls gettok until it has seen end of input   *)
(* MaxEofCalls times; then stdin is supplied a second time, either the     *)
(* same bytes to the same process or the bytes without their comments to a *)
(* new process.                                                            *)

MaxEofCalls == 2

MaxLenLex == 4

LexAlphabet == {Ord(c) : c \in {" ", "\n", "\r", "d", "e", "f", "1", ".", "#", "+"}}

NumEof(t) == Cardinality({i \in 1..Len(t) : t[i].tok = tok_eof})

RunEnded == pc = "lexing" /\ NumEof(toks) = MaxEofCalls

\* A caller calls gettok (through getNextToken).
CallGettok ==
    /\ pc \in {"lexing", "done"}
    /\ NumEof(toks) < MaxEofCalls
    /\ \E m1 \in {getNextToken(M)} : SetM(m1)
    /\ pc' = "lexing"
    /\ UNCHANGED <<input, BinopPrecedence, stack, ret, errs, first>>

\* The same bytes are supplied on stdin again; the process, and with it every
\* static, lives on.
Rewind ==
    /\ RunEnded
    /\ first.run = "first"
    /\ first' = [run |-> "again", input |-> input, toks |-> toks]
    /\ pos' = 0
    /\ toks' = <<>>
    /\ UNCHANGED <<input, LastChar, IdentifierStr, NumVal, CurTok, BinopPrecedence,
                   stack, ret, errs, pc>>

\* in without its comments: each '#' and what follows it up to, and not
\* including, the next newline or carriage return or the end of in.
RECURSIVE StripComments(_, _)
StripComments(in, inComment) ==
    IF in = <<>> THEN <<>>
    ELSE LET c == Head(in)
         IN  IF inComment
             THEN IF c \in {10, 13} THEN <<c>> \o StripComments(Tail(in), FALSE)
                  ELSE StripComments(Tail(in), TRUE)
             ELSE IF c = Ord("#") THEN StripComments(Tail(in), TRUE)
                  ELSE <<c>> \o StripComments(Tail(in), FALSE)

\* A new process is started on the bytes of stdin without their comments.
Restart ==
    /\ RunEnded
    /\ first.run = "first"
    /\ first' = [run |-> "stripped", input |-> input, toks |-> toks]
    /\ input' = StripComments(input, FALSE)
    /\ pos' = 0
    /\ LastChar' = 32
    /\ IdentifierStr' = <<>>
    /\ NumVal' = Normalize(0, 0)
    /\ CurTok' = 0
    /\ toks' = <<>>
    /\ UNCHANGED <<BinopPrecedence, stack, ret, errs, pc>>

InitLex ==
    /\ input \in Inputs(LexAlphabet, MaxLenLex)
    /\ pos = 0
    /\ LastChar = 32
    /\ IdentifierStr = <<>>
    /\ NumVal = Normalize(0, 0)
    /\ CurTok = 0
    /\ BinopPrecedence = MainTable
    /\ stack = <<>>
    /\ ret = nullptr
    /\ errs = <<>>
    /\ pc = "lexing"
    /\ toks = <<>>
    /\ first = [run |-> "first"]

NextLex ==
    \/ CallGettok
    \/ Rewind
    \/ Restart

SpecLex == InitLex /\ [][NextLex]_vars

----------------------------------------------------------------------------
(* One call of ParseExpression followed by calls of gettok, with the       *)
(* parser always taking its next step.                                     *)

MaxLenLive == 4

LiveAlphabet == {Ord(c) : c \in {"1", "a", "(", ")", ",", "+", " ", "#", "\n"}}

InitLive ==
    /\ input \in Inputs(LiveAlphabet, MaxLenLive)
    /\ InitStatics

NextLive ==
    \/ CallParseExpression
    \/ ParserStep
    \/ CallGettok

SpecLive == InitLive /\ [][NextLive]_vars /\ WF_vars(ParserStep)


----------------------------------------------------------------------------
(* The handling of def and extern.  lang.cpp declares PrototypeAST,        *)
(* FunctionAST and LogErrorP and lexes the two keywords, and holds no      *)
(* function that parses them: these are the operations as spec.md          *)
(* section 4.3 describes them, on top of the lexer and ParseExpression of  *)
(* lang.cpp.                                                               *)

\* The parameters of a prototype: consecutive identifier tokens.
RECURSIVE ProtoArgs(_, _)
ProtoArgs(m, ArgNames) ==
    Let(getNextToken(m), LAMBDA m1 :
        IF m1.CurTok = tok_identifier
        THEN ProtoArgs(m1, Append(ArgNames, m1.IdentifierStr))
        ELSE [m |-> m1, ArgNames |-> ArgNames])

\* parsePrototype: the statics, the prototype or nullptr, and stderr after it.
ParsePrototype(m, e) ==
    IF m.CurTok # tok_identifier
    THEN [m |-> m, val |-> nullptr,
          errs |-> LogError(e, "expected function name in prototype")]
    ELSE Let(getNextToken(m), LAMBDA m1 :
         IF m1.CurTok # Ord("(")
         THEN [m |-> m1, val |-> nullptr,
               errs |-> LogError(e, "Expected '(' in prototype")]
         ELSE Let(ProtoArgs(m1, <<>>), LAMBDA a :
              IF a.m.CurTok # Ord(")")
              THEN [m |-> a.m, val |-> nullptr,
                    errs |-> LogError(e, "Expected ')' in prototype")]
              ELSE [m |-> getNextToken(a.m),
                    val |-> PrototypeAST(m.IdentifierStr, a.ArgNames),
                    errs |-> e]))

\* parseDefinition up to its call of ParseExpression for the body.
ParseDefinition ==
    /\ Running("ParseDefinition", "entry")
    /\ \E m1 \in {getNextToken(M)} :
       \E p \in {ParsePrototype(m1, errs)} :
           IF p.val = nullptr
           THEN Step(p.m, BinopPrecedence, Rest, nullptr, p.errs)
           ELSE Step(p.m, BinopPrecedence,
                     Rest \o <<[fn |-> "ParseDefinition", at |-> "E", Proto |-> p.val],
                               Frame("ParseExpression")>>,
                     ret, p.errs)

\* parseDefinition after ParseExpression has returned the body.
ParseDefinition_E ==
    /\ Running("ParseDefinition", "E")
    /\ Step(M, BinopPrecedence, Rest,
            IF ret = nullptr THEN nullptr ELSE FunctionAST(Top.Proto, ret), errs)

\* parseExtern
ParseExtern ==
    /\ Running("ParseExtern", "entry")
    /\ \E m1 \in {getNextToken(M)} :
       \E p \in {ParsePrototype(m1, errs)} :
           Step(p.m, BinopPrecedence, Rest, p.val, p.errs)

\* parseTopLevelExpr up to its call of ParseExpression.
ParseTopLevelExpr ==
    /\ Running("ParseTopLevelExpr", "entry")
    /\ Step(M, BinopPrecedence,
            Rest \o <<[fn |-> "ParseTopLevelExpr", at |-> "E"], Frame("ParseExpression")>>,
            ret, errs)

\* parseTopLevelExpr after ParseExpression has returned: the expression is
\* the body of an anonymous function without parameters.
ParseTopLevelExpr_E ==
    /\ Running("ParseTopLevelExpr", "E")
    /\ Step(M, BinopPrecedence, Rest,
            IF ret = nullptr THEN nullptr
            ELSE FunctionAST(PrototypeAST(<<>>, <<>>), ret), errs)

\* A caller: it reads the first token and calls the operation the token
\* selects.
HandleTopLevel ==
    /\ pc = "start"
    /\ \E m1 \in {getNextToken(M)} :
        /\ SetM(m1)
        /\ stack' = <<Frame(IF m1.CurTok = tok_def THEN "ParseDefinition"
                            ELSE IF m1.CurTok = tok_extern THEN "ParseExtern"
                            ELSE "ParseTopLevelExpr")>>
    /\ pc' = "parsing"
    /\ UNCHANGED <<input, BinopPrecedence, ret, errs, first>>

\* The inputs of spec.md section 8, and two on which gettok returns tok_def
\* and tok_extern.
DefFoo == Str(<<"d","e","f"," ","f","o","o","(","x"," ","y",")"," ","x","+","y">>)

ExternSin == Str(<<"e","x","t","e","r","n"," ","s","i","n","(","x",")">>)

TopInputs ==
    {DefFoo,
     ExternSin,
     Str(<<"d","d","e","f"," ","f","o","o","(","x"," ","y",")"," ","x","+","y">>),
     Str(<<"e","e","x","t","e","r","n"," ","s","i","n","(","x",")">>),
     Str(<<"1","+","2","*","3">>),
     Str(<<"1","*","2","+","3">>),
     Str(<<"1","-","2","-","3">>),
     Str(<<"(","1","+","2",")","*","3">>),
     Str(<<"f","o","o","(","1",","," ","b","a","r","(","2",",","3",")",")">>),
     Str(<<"(","1","+","2">>),
     Str(<<"f","o","o","(","1"," ","2",")">>),
     Str(<<"1"," ","#"," ","i","g","n","o","r","e"," ","m","e","\n","+","2">>)}

InitTop ==
    /\ input \in TopInputs
    /\ InitStatics

NextTop ==
    \/ HandleTopLevel
    \/ ParseDefinition
    \/ ParseDefinition_E
    \/ ParseExtern
    \/ ParseTopLevelExpr
    \/ ParseTopLevelExpr_E
    \/ ParserStep

SpecTop == InitTop /\ [][NextTop]_vars

----------------------------------------------------------------------------
(* What the claims speak of *)

\* The statics of a process that has not called gettok yet.
FreshLexer ==
    [LastChar |-> 32, IdentifierStr |-> <<>>, NumVal |-> Normalize(0, 0), pos |-> 0]

\* The tokens gettok returns on stdin in, up to the first tok_eof.
RECURSIVE LexAll(_, _)
LexAll(in, lx) ==
    Let(gettok(in, lx), LAMBDA r :
        IF r.tok = tok_eof THEN <<TokenRecord(in, r)>>
        ELSE <<TokenRecord(in, r)>> \o LexAll(in, r.lx))

InputTokens == LexAll(input, FreshLexer)

Kinds(t) == [i \in 1..Len(t) |-> t[i].tok]

\* A token as a caller sees it: its kind and the text or value it carries.
Seen(t) == [i \in 1..Len(t) |->
               [tok |-> t[i].tok, str |-> t[i].str, num |-> t[i].num]]

\* The input is a chain  a op1 b op2 c  of numbers and identifiers joined by
\* operators of the table, and nothing else.
Chain3(t) ==
    /\ Len(t) = 6
    /\ \A i \in {1, 3, 5} : t[i].tok \in {tok_number, tok_identifier}
    /\ \A i \in {2, 4} : t[i].tok \in DOMAIN MainTable
    /\ t[6].tok = tok_eof

\* The node ParsePrimary builds of a number or identifier token.
Leaf(t) == IF t.tok = tok_number THEN NumberExprAST(t.num) ELSE VariableExprAST(t.str)

\* The maximal run of alphanumeric characters of in that starts at index i.
RECURSIVE AlnumRun(_, _)
AlnumRun(in, i) ==
    IF i <= Len(in) /\ isalnum(in[i]) THEN <<in[i]>> \o AlnumRun(in, i + 1) ELSE <<>>

----------------------------------------------------------------------------
(* C1: in a chain a op1 b op2 c where op2 has a strictly greater table     *)
(* precedence than op1, ParseExpression returns                            *)
(* BinaryExpr(op1, a, BinaryExpr(op2, b, c)).  Violated by the code: the   *)
(* branch of ParseBinOpRHS for a tighter binding next operator is empty.   *)
C1_TighterOperatorBindsFirst ==
    (pc = "done" /\ Chain3(InputTokens)) =>
        LET t == InputTokens
        IN  MainTable[t[4].tok] > MainTable[t[2].tok] =>
                ret = BinaryExprAST(t[2].tok, Leaf(t[1]),
                                    BinaryExprAST(t[4].tok, Leaf(t[3]), Leaf(t[5])))

(* C7: in a chain a op1 b op2 c where the table precedence of op2 is less  *)
(* than or equal to that of op1, ParseExpression returns                   *)
(* BinaryExpr(op2, BinaryExpr(op1, a, b), c).                              *)
C7_LeftAssociative ==
    (pc = "done" /\ Chain3(InputTokens)) =>
        LET t == InputTokens
        IN  MainTable[t[4].tok] <= MainTable[t[2].tok] =>
                ret = BinaryExprAST(t[4].tok,
                                    BinaryExprAST(t[2].tok, Leaf(t[1]), Leaf(t[3])),
                                    Leaf(t[5]))

\* A chain with a weaker operator following has been parsed.
C7_Witness ==
    /\ pc = "done"
    /\ Chain3(InputTokens)
    /\ MainTable[InputTokens[4].tok] < MainTable[InputTokens[2].tok]
    /\ ret # nullptr
    /\ ret.kind = "Binary"

(* C3: a parse attempt emits at most one diagnostic; once one is emitted   *)
(* every function on the stack returns null, so the top-level              *)
(* ParseExpression returns null exactly when one diagnostic was emitted;   *)
(* a '(' expression with its ')' missing fails with "Expected ')'", an     *)
(* argument followed by neither ')' nor ',' fails with the argument list   *)
(* message.                                                                *)
C3_OneDiagnosticAndNull ==
    /\ Len(errs) <= 1
    /\ errs # <<>> => ret = nullptr
    /\ pc = "done" =>
        /\ (ret = nullptr) <=> (Len(errs) = 1)
        /\ LET k == Kinds(InputTokens)
           IN  /\ k = <<Ord("("), tok_number, Ord("+"), tok_number, tok_eof>>
                    => errs = <<"Expected ')'">>
               /\ (Len(k) >= 4 /\ SubSeq(k, 1, 4) =
                        <<tok_identifier, Ord("("), tok_number, tok_number>>)
                    => errs = <<"Expected ')' or ',' in argument list">>

\* The failure is two calls of ParseExpression deep: a call whose argument is
\* a '(' expression that is not closed.
C3_Witness ==
    /\ pc = "done"
    /\ ret = nullptr
    /\ errs = <<"Expected ')'">>
    /\ Len(toks) >= 4
    /\ SubSeq(Kinds(toks), 1, 4) = <<tok_identifier, Ord("("), Ord("("), tok_number>>

(* C5: when ParseIdentifierExpr returns a node, it is a VariableExpr with  *)
(* the text of the identifier it was started on when no '(' follows, and   *)
(* otherwise a CallExpr whose callee is that text, whose arguments are the *)
(* parsed expressions in order, the token before the current one being the *)
(* closing ')'.  Violated by the code: IdentifierStr is not the            *)
(* identifier's text (C2).                                                 *)
C5_IdentifierExpr ==
    [][(/\ pc = "parsing"
        /\ stack # <<>>
        /\ Top.fn = "ParseIdentifierExpr"
        /\ Len(stack') < Len(stack)
        /\ ret' # nullptr)
       => LET entry == Top.at = "entry"
              text == IF entry THEN toks[Len(toks)].text ELSE Top.idText
          IN  /\ ret'.kind \in {"Variable", "Call"}
              /\ ret'.kind = "Variable" =>
                    /\ entry
                    /\ ret'.Name = text
                    /\ CurTok' # Ord("(")
              /\ ret'.kind = "Call" =>
                    /\ ret'.Callee = text
                    /\ ret'.Args = IF entry THEN <<>> ELSE Append(Top.Args, ret)
                    /\ toks'[Len(toks') - 1].tok = Ord(")")]_vars

(* C9: no lookup made while parsing adds, removes or changes an entry of   *)
(* BinopPrecedence: it always holds the four entries main() set.  Violated *)
(* by the code: BinopPrecedence[CurTok] inserts an unmapped key.           *)
C9_TableReadOnly == BinopPrecedence = MainTable

(* C8: parsing "def foo(x y) x+y" yields the Function of the Prototype     *)
(* foo(x, y) and the body x+y, and parsing "extern sin(x)" yields the      *)
(* Prototype sin(x).  Violated by the code: on the input "def" gettok      *)
(* leaves "ef" in IdentifierStr and returns tok_identifier (C2).           *)
C8_DefAndExtern ==
    pc = "done" =>
        /\ input = DefFoo =>
              ret = FunctionAST(
                        PrototypeAST(Str(<<"f","o","o">>), <<Str(<<"x">>), Str(<<"y">>)>>),
                        BinaryExprAST(Ord("+"), VariableExprAST(Str(<<"x">>)),
                                      VariableExprAST(Str(<<"y">>))))
        /\ input = ExternSin =>
              ret = PrototypeAST(Str(<<"s","i","n">>), <<Str(<<"x">>)>>)

(* C2: for every token whose first character is alphabetic, IdentifierStr  *)
(* is the maximal run of alphanumeric characters starting there, and the   *)
(* token is tok_def iff the run is "def", tok_extern iff it is "extern",   *)
(* tok_identifier otherwise.  Violated by the code: the first character is *)
(* never stored and IdentifierStr is never cleared.                        *)
C2_IdentifierText ==
    \A i \in 1..Len(toks) :
        LET t == toks[i]
            run == AlnumRun(input, t.start)
        IN  (t.start \in 1..Len(input) /\ isalpha(input[t.start])) =>
                /\ t.str = run
                /\ t.tok = IF run = Str(<<"d","e","f">>) THEN tok_def
                           ELSE IF run = Str(<<"e","x","t","e","r","n">>) THEN tok_extern
                           ELSE tok_identifier

(* C4: gettok run over the same input a second time in the same process    *)
(* returns the same token kinds and texts as the first time.  Violated by  *)
(* the code: LastChar still holds EOF and IdentifierStr its old content.   *)
C4_Repeatable ==
    (RunEnded /\ first.run = "again" /\ \A i \in 1..Len(input) : input[i] # Ord("#"))
        => Seen(toks) = Seen(first.toks)

(* C6: the tokens gettok returns on an input are those it returns on the   *)
(* input with its comments deleted.                                        *)
C6_CommentsTransparent ==
    (RunEnded /\ first.run = "stripped") => Seen(toks) = Seen(first.toks)

\* A comment that ended at a newline with a token after it was deleted.
C6_Witness ==
    /\ RunEnded
    /\ first.run = "stripped"
    /\ \E i \in 1..Len(first.input), j \in 1..Len(first.toks) :
            /\ first.input[i] = Ord("#")
            /\ first.toks[j].tok # tok_eof
            /\ first.toks[j].start > i

(* C10: a call of ParseExpression returns; every iteration of the loop of  *)
(* ParseBinOpRHS and of the argument loop has consumed a token; no scan    *)
(* loop reads past the end of input; after tok_eof gettok returns tok_eof. *)
C10_State ==
    /\ pos <= Len(input) + 1
    /\ \A i \in 1..(Len(toks) - 1) : toks[i].tok = tok_eof => toks[i + 1].tok = tok_eof
    /\ Running("ParseBinOpRHS", "RHS") => Len(toks) > Top.mark
    /\ (Running("ParseIdentifierExpr", "Arg") /\ ret # nullptr) => Len(toks) > Top.mark
    /\ pc \in {"done", "lexing"} => ((ret = nullptr) <=> (errs # <<>>))

C10_Terminates ==
    /\ (pc = "parsing") ~> (pc = "done")
    /\ []C10_State

\* A parse with a loop iteration has returned and gettok was called at the
\* end of input again.
C10_Witness ==
    /\ pc = "lexing"
    /\ NumEof(toks) = MaxEofCalls
    /\ ret # nullptr
    /\ ret.kind = "Binary"

============================================================================
